---- MODULE Spec2Model ----
(***************************************************************************)
(* Model of the Spread Eagle ingestion and CDC merge engine.               *)
(*                                                                         *)
(* Subsystems, each with its own specification over the shared variables:  *)
(*   SpecDag      dags/daily_full_refresh.py  (stage -> validate -> swap)  *)
(*   SpecMerge    load_table, upsert_table, upsert_dataframe               *)
(*   SpecIncr     cbb/upsert_incremental.py (staging, run_upsert)          *)
(*   SpecStore    SpecMerge and SpecIncr together                          *)
(*   SpecPlan     generate_month_ranges                                    *)
(*   SpecFetch    fetch_by_date_ranges and the rolling pull                *)
(*   SpecSeason   a season pull against a date-filtering provider          *)
(*   SpecRetry    incremental/_common.fetch_with_retry                     *)
(*   SpecOrch     cbb_v2/run_ingest.py and incremental/run_incremental.py  *)
(*   SpecFlatten  the flattening of nested records (lines, game players)   *)
(***************************************************************************)
EXTENDS Integers, Sequences, FiniteSets, TLC

VARIABLES
    \* ---- daily_full_refresh DAG ----
    extractTask,    \* asset -> Airflow state of extract_and_load_stage
    validateTask,   \* asset -> Airflow state of validate_stage
    finalizeTask,   \* Airflow state of finalize_all
    finalizeIdx,    \* position of finalize_all's "for asset in assets" loop
    extracted,      \* asset -> len(rows_list) of the extractor, -1 before it ran
    landed,         \* asset -> rows in staging right after load_rows_to_table
    reported,       \* asset -> XCom return value of extract_and_load_stage
    stage,          \* asset -> content of asset.staging_table
    raw,            \* asset -> content of asset.target_table
    rawBefore,      \* asset -> content of asset.target_table when the run began
    \* ---- persistent table and its merge operations ----
    store,          \* schema of the table: "cbb" (DDL-created) or "cbb_raw"
    tbl,            \* the persistent table: exists, hasPk, rows
    tblBefore,      \* tbl as it was when the last merge call began
    lastMerge,      \* the last merge call: op, file, ok
    calls,          \* number of merge calls so far
    now,            \* database clock (NOW())
    \* ---- date-window planner ----
    planArgs,       \* arguments of generate_month_ranges
    planPc,         \* "call" before, "done" after generate_month_ranges
    ranges,         \* the list it returned
    \* ---- extraction: fetch_by_date_ranges and the rolling pull ----
    job,            \* which extraction runs: "season_pull" or "rolling_pull"
    srv,            \* provider data of the season: record id -> start date
    fSeason,        \* season argument of fetch_by_date_ranges
    fComposite,     \* whether composite_key is passed
    fPc,            \* "loop", "returned" or "raised"
    fIdx,           \* index of the next window of month_ranges
    fOut,           \* out
    fSeen,          \* seen_keys
    fFirst,         \* id -> first record the provider returned for it
    fLast,          \* id -> latest record the provider returned for it
    fSkipped,       \* whether some window was skipped
    rollLeft,       \* seasons _fetch_cbb_by_date_range still has to request
    rollRecords,    \* all_records, then records
    rollOut,        \* records after dedupe_records
    rollErrors,     \* errors: the seasons whose fetch_with_retry failed
    rollPc,         \* "fetch" or "done"
    rollN,          \* number of seasons in range(start_season, end_season + 1)
    rollLog,        \* what fetch_with_retry returned for each season so far
    manifest,       \* the manifest create_manifest built
    rollResult,     \* the dict the pull returned
    fSinceLast,     \* time slept since the last request, -1 before the first
    fMinGap,        \* shortest sleep between two consecutive requests, -1 if none
    pullDay,        \* the UTC day of the rolling pull (date_str)
    s3,             \* day -> the _manifest.json under that day's prefix, if any
    uploads,        \* number of manifests pulls of the dataset have uploaded
    \* ---- upsert_incremental: staging tables and run_upsert ----
    incrPc,         \* "idle", "load", "done", "aborted" or "raised"
    incrRun,        \* number of the current run of main()
    incrIdx,        \* index of the next table of load_order
    stg,            \* table -> rows of its staging table (key, loading run)
    mainT,          \* table -> rows of its main table
    incrFileRows,   \* table -> rows of its parquet file as this run read it
    incrOutcome,    \* how the current run of main() went
    \* ---- incremental/_common.fetch_with_retry ----
    rPc,            \* "try" inside the for loop, "returned" after it
    rMax,           \* max_retries
    rAttempt,       \* attempt
    rLog,           \* outcome of every request issued so far
    rSleeps,        \* argument of every time.sleep so far
    rResult,        \* the tuple returned: data, ok
    \* ---- orchestrators: cbb_v2/run_ingest.py and incremental/run_incremental.py ----
    entry,          \* which entry point runs: "run_ingest" or "run_incremental"
    datasets,       \* the datasets argument: given (not None) and its names
    load_datasets,  \* load_datasets
    oPc,            \* "validate", "loop", "raised", "returned", "pulls" or "exited"
    oIdx,           \* position of "for dataset in load_datasets"
    called,         \* the datasets whose loader was called, in call order
    happened,       \* dataset -> what happened inside its loader
    results,        \* results["datasets"]: dataset -> status, "none" without entry
    overall_status, \* results["overall_status"], "none" before it is set
    pulls,          \* run_incremental: r["success"] of every pull so far
    exitStatus,     \* exit status of the process, -1 while it runs
    \* ---- flattening of nested records ----
    flBy,           \* the function that flattened, "none" before
    flRecords,      \* the fetched parent records
    flat_records    \* the flattened rows, each with the parent it came from

dagVars == <<extractTask, validateTask, finalizeTask, finalizeIdx, extracted,
             landed, reported, stage, raw, rawBefore>>

mergeVars == <<store, tbl, tblBefore, lastMerge, calls, now>>

planVars == <<planArgs, planPc, ranges>>

fetchVars == <<job, srv, fSeason, fComposite, fPc, fIdx, fOut, fSeen, fFirst,
               fLast, fSkipped, rollLeft, rollRecords, rollOut, rollErrors, rollPc,
               rollN, rollLog, manifest, rollResult, fSinceLast, fMinGap,
               pullDay, s3, uploads>>

trailVars == <<pullDay, s3, uploads>>

manifestVars == <<rollN, rollLog, manifest, rollResult>>

incrVars == <<incrPc, incrRun, incrIdx, stg, mainT, incrFileRows, incrOutcome>>

retryVars == <<rPc, rMax, rAttempt, rLog, rSleeps, rResult>>

orchVars == <<entry, datasets, load_datasets, oPc, oIdx, called, happened,
              results, overall_status, pulls, exitStatus>>

flattenVars == <<flBy, flRecords, flat_records>>

vars == <<dagVars, mergeVars, planVars, fetchVars, incrVars, retryVars, orchVars,
          flattenVars>>

nonDagVars == <<mergeVars, planVars, fetchVars, incrVars, retryVars, orchVars,
    flattenVars>>
nonMergeVars == <<dagVars, planVars, fetchVars, incrVars, retryVars, orchVars,
    flattenVars>>
nonPlanVars == <<dagVars, mergeVars, fetchVars, incrVars, retryVars, orchVars,
    flattenVars>>
nonFetchVars == <<dagVars, mergeVars, planVars, incrVars, retryVars, orchVars,
    flattenVars>>
nonIncrVars == <<dagVars, mergeVars, planVars, fetchVars, retryVars, orchVars,
    flattenVars>>
nonOrchVars == <<dagVars, mergeVars, planVars, fetchVars, incrVars, retryVars,
    flattenVars>>
nonRetryVars == <<dagVars, mergeVars, planVars, fetchVars, incrVars, orchVars,
    flattenVars>>
nonFlattenVars == <<dagVars, mergeVars, planVars, fetchVars, incrVars, retryVars,
    orchVars>>

\* ------------------------------------------------------------------------
\* Bounds
\* ------------------------------------------------------------------------
NumAssets == 2      \* assets in the batch (ASSETS)
MaxRows == 2        \* rows an extractor returns

MaxKey == 2         \* distinct natural-key values
MaxVal == 2         \* distinct values of the non-key column
MaxBatch == 2       \* rows in one parquet file / DataFrame
MaxCalls == 3       \* merge calls in one behaviour
PageSize == 2       \* rows per INSERT statement of execute_values (scaled page_size)
FirstYear == 2023   \* earliest year handed to the planner
LastYear == 2025    \* latest year handed to the planner
Cap == 2            \* records the provider returns per request (scaled cap)
NumRec == 3         \* records of one season at the provider
NumTables == 2      \* tables of load_order in upsert_incremental (scaled)
MaxRuns == 2        \* runs of upsert_incremental.main
MaxRetriesArg == 3  \* largest max_retries handed to fetch_with_retry
MaxRequested == 3   \* names in the datasets argument of run_ingest
MaxDays == 2        \* days on which the dataset is pulled
MaxChildren == 2    \* nested children in the fetched parent records

Assets == 1..NumAssets

\* A table's content: the run that produced it (0 = an earlier run, 1 = this
\* run) and its row count.
Content(g, n) == [gen |-> g, n |-> n]

Min(a, b) == IF a < b THEN a ELSE b

DagIdle ==
    /\ extractTask = [a \in Assets |-> "none"]
    /\ validateTask = [a \in Assets |-> "none"]
    /\ finalizeTask = "none"
    /\ finalizeIdx = 1
    /\ extracted = [a \in Assets |-> -1]
    /\ landed = [a \in Assets |-> -1]
    /\ reported = [a \in Assets |-> -1]
    /\ stage = [a \in Assets |-> Content(0, 0)]
    /\ raw = [a \in Assets |-> Content(0, 0)]
    /\ rawBefore = raw

\* ------------------------------------------------------------------------
\* Persistent table and its merge operations
\*   cbb schema     : load_to_postgres.load_table, load_cdc_to_postgres.upsert_table
\*   cbb_raw schema : cbb_v2.common.upsert_dataframe
\* ------------------------------------------------------------------------
NullKey == 0
Keys == 1..MaxKey

SeqsUpTo(S, n) == UNION {[1..m -> S] : m \in 0..n}

\* Rows of a parquet file / DataFrame: natural key (possibly NULL) and one
\* non-key column.
FileRows == [k : 0..MaxKey, v : 1..MaxVal]

Files == {[present |-> FALSE, rows |-> <<>>]}
            \cup {[present |-> TRUE, rows |-> r] : r \in SeqsUpTo(FileRows, MaxBatch)}

DataFrames == {f \in Files : f.present}

Days == 1..MaxDays

\* The bucket without any manifest of the dataset.
EmptyTrail == [d \in Days |-> <<>>]

NoManifest == [record_count |-> 0, success |-> FALSE, errors |-> <<>>]

NoMerge == [op |-> "none", file |-> [present |-> FALSE, rows |-> <<>>],
            ok |-> TRUE, repeat |-> FALSE]

MergeIdle ==
    /\ store = "none"
    /\ tbl = [exists |-> FALSE, hasPk |-> FALSE, rows |-> <<>>]
    /\ tblBefore = tbl
    /\ lastMerge = NoMerge
    /\ calls = 0
    /\ now = 1

PlanIdle ==
    /\ planArgs = <<0, 0, 0, 0>>
    /\ planPc = "idle"
    /\ ranges = <<>>

FetchIdle ==
    /\ job = "none"
    /\ srv = <<>>
    /\ fSeason = 0
    /\ fComposite = FALSE
    /\ fPc = "idle"
    /\ fIdx = 1
    /\ fOut = <<>>
    /\ fSeen = {}
    /\ fFirst = <<>>
    /\ fLast = <<>>
    /\ fSkipped = FALSE
    /\ rollLeft = 0
    /\ rollRecords = <<>>
    /\ rollOut = <<>>
    /\ rollErrors = <<>>
    /\ rollPc = "idle"
    /\ rollN = 0
    /\ rollLog = <<>>
    /\ manifest = NoManifest
    /\ rollResult = NoManifest
    /\ fSinceLast = -1
    /\ fMinGap = -1
    /\ pullDay = 0
    /\ s3 = EmptyTrail
    /\ uploads = 0

IncrTables == 1..NumTables

IncrIdle ==
    /\ incrPc = "off"
    /\ incrRun = 0
    /\ incrIdx = 1
    /\ stg = [t \in IncrTables |-> <<>>]
    /\ mainT = [t \in IncrTables |-> <<>>]
    /\ incrFileRows = [t \in IncrTables |-> 0]
    /\ incrOutcome = "none"

RetryIdle ==
    /\ rPc = "off"
    /\ rMax = 0
    /\ rAttempt = 0
    /\ rLog = <<>>
    /\ rSleeps = <<>>
    /\ rResult = [data |-> <<>>, ok |-> FALSE]

\* DATASET_ORDER of run_ingest.py
DATASET_ORDER ==
    <<"teams", "venues", "games", "team_game_stats", "lines",
      "team_season_stats", "player_season_stats", "game_players">>

DatasetNames == {DATASET_ORDER[i] : i \in 1..Len(DATASET_ORDER)}

OrchIdle ==
    /\ entry = "none"
    /\ datasets = [given |-> FALSE, names |-> <<>>]
    /\ load_datasets = <<>>
    /\ oPc = "off"
    /\ oIdx = 1
    /\ called = <<>>
    /\ happened = [d \in DatasetNames |-> "none"]
    /\ results = [d \in DatasetNames |-> "none"]
    /\ overall_status = "none"
    /\ pulls = <<>>
    /\ exitStatus = -1

FlattenIdle ==
    /\ flBy = "none"
    /\ flRecords = <<>>
    /\ flat_records = <<>>

\* ------------------------------------------------------------------------
\* DateWindowPlanner: generate_month_ranges (cbb_v2/common.py, cbb/_common.py)
\* ------------------------------------------------------------------------
\* Dates are <<year, month, day>>; the "YYYY-MM-DDThh:mm:ssZ" strings the code
\* builds compare as these triples do.
DateLE(a, b) ==
    \/ a[1] < b[1]
    \/ a[1] = b[1] /\ a[2] < b[2]
    \/ a[1] = b[1] /\ a[2] = b[2] /\ a[3] <= b[3]

\* (year, month) <= (end_year, end_month), Python tuple comparison
MonthLE(y1, m1, y2, m2) == y1 < y2 \/ (y1 = y2 /\ m1 <= m2)

\* The day generate_month_ranges puts in a window's end.
EndOfMonthDay(year, month) ==
    IF month = 12 THEN 31
    ELSE IF month \in {4, 6, 9, 11} THEN 30
    ELSE IF month = 2 THEN 28
    ELSE 31

RECURSIVE generate_month_ranges(_, _, _, _)
generate_month_ranges(year, month, end_year, end_month) ==
    IF ~MonthLE(year, month, end_year, end_month) THEN <<>>
    ELSE <<[start |-> <<year, month, 1>>,
            end |-> <<year, month, EndOfMonthDay(year, month)>>]>>
         \o (IF month + 1 > 12
                THEN generate_month_ranges(year + 1, 1, end_year, end_month)
                ELSE generate_month_ranges(year, month + 1, end_year, end_month))

InitPlan ==
    /\ planArgs \in (FirstYear..LastYear) \X (1..12) \X (FirstYear..LastYear) \X (1..12)
    /\ planPc = "call"
    /\ ranges = <<>>
    /\ DagIdle
    /\ MergeIdle
    /\ FetchIdle
    /\ IncrIdle
    /\ RetryIdle
    /\ OrchIdle
    /\ FlattenIdle

Plan ==
    /\ planPc = "call"
    /\ ranges' = generate_month_ranges(planArgs[1], planArgs[2], planArgs[3], planArgs[4])
    /\ planPc' = "done"
    /\ UNCHANGED planArgs
    /\ UNCHANGED nonPlanVars

NextPlan == Plan

SpecPlan == InitPlan /\ [][NextPlan]_vars

\* The calendar.
IsLeapYear(y) == (y % 4 = 0 /\ y % 100 # 0) \/ y % 400 = 0

DaysInMonth(y, m) ==
    IF m = 2 THEN (IF IsLeapYear(y) THEN 29 ELSE 28)
    ELSE IF m \in {4, 6, 9, 11} THEN 30 ELSE 31

InWindow(d, w) == DateLE(w.start, d) /\ DateLE(d, w.end)

\* C8: every calendar day from the first day of the start month to the last
\* day of the end month lies inside exactly one returned window.
C8_GapFree ==
    (planPc = "done" /\ MonthLE(planArgs[1], planArgs[2], planArgs[3], planArgs[4])) =>
        \A y \in FirstYear..LastYear : \A m \in 1..12 :
            (MonthLE(planArgs[1], planArgs[2], y, m) /\ MonthLE(y, m, planArgs[3], planArgs[4]))
               => \A d \in 1..DaysInMonth(y, m) :
                     Cardinality({i \in 1..Len(ranges) : InWindow(<<y, m, d>>, ranges[i])}) = 1

\* ------------------------------------------------------------------------
\* PaginatedExtractor: fetch_by_date_ranges (cbb_v2/common.py, cbb/_common.py)
\* and the rolling pull of incremental/cbb_rolling.py with dedupe_records
\* ------------------------------------------------------------------------
MaxId == IF MaxKey > NumRec THEN MaxKey ELSE NumRec

\* A record of the provider: its id (NullKey when the field is missing) and
\* the version of its other fields.
Records == [id : 0..MaxKey, ver : 1..MaxVal]

Responses == SeqsUpTo(Records, MaxBatch)

NoRec == [id |-> -1, ver |-> 0]

\* month_ranges = generate_month_ranges(season - 1, 11, season, 4)
MonthRanges(season) == generate_month_ranges(season - 1, 11, season, 4)

\* "key is not None": r.get(id_field) of a record without the field is None,
\* a composite key is a tuple and never None.
KeyIsNone(r, composite) == ~composite /\ r.id = NullKey

\* Mutant of DedupeOnTheFly: the "key not in seen_keys" test is dropped.
RECURSIVE DedupeOnTheFlyNoSeen(_, _, _, _)
DedupeOnTheFlyNoSeen(data, seen, new_records, composite) ==
    IF data = <<>> THEN [seen |-> seen, new |-> new_records]
    ELSE LET r == Head(data) IN
         IF ~KeyIsNone(r, composite)
            THEN DedupeOnTheFlyNoSeen(Tail(data), seen \cup {r.id},
                                      Append(new_records, r), composite)
            ELSE DedupeOnTheFlyNoSeen(Tail(data), seen, new_records, composite)

\* The "Dedupe on the fly" loop over one response.
RECURSIVE DedupeOnTheFly(_, _, _, _)
DedupeOnTheFly(data, seen, new_records, composite) ==
    IF data = <<>> THEN [seen |-> seen, new |-> new_records]
    ELSE LET r == Head(data) IN
         IF ~KeyIsNone(r, composite) /\ r.id \notin seen
            THEN DedupeOnTheFly(Tail(data), seen \cup {r.id},
                                Append(new_records, r), composite)
            ELSE DedupeOnTheFly(Tail(data), seen, new_records, composite)

\* incremental/_common.dedupe_records(records, key_fields)
RECURSIVE DedupeRecords(_, _)
DedupeRecords(records, seen) ==
    IF records = <<>> THEN <<>>
    ELSE LET r == Head(records) IN
         IF r.id \notin seen
            THEN <<r>> \o DedupeRecords(Tail(records), seen \cup {r.id})
            ELSE DedupeRecords(Tail(records), seen)

\* The first record of data with id k, or what was recorded before.
FirstOf(prev, data, k) ==
    IF prev # NoRec \/ ~\E i \in 1..Len(data) : data[i].id = k THEN prev
    ELSE data[CHOOSE i \in 1..Len(data) :
                 /\ data[i].id = k
                 /\ \A j \in 1..(i - 1) : data[j].id # k]

\* The last record of data with id k, or what was recorded before.
LastOf(prev, data, k) ==
    IF ~\E i \in 1..Len(data) : data[i].id = k THEN prev
    ELSE data[CHOOSE i \in 1..Len(data) :
                 /\ data[i].id = k
                 /\ \A j \in (i + 1)..Len(data) : data[j].id # k]

\* Sleeps are counted in tenths of a second.
\* RATE_LIMIT_SLEEP = 0.2 (cbb_v2/common.py), time.sleep(0.2) (cbb/_common.py)
RATE_LIMIT_SLEEP == 2

\* time.sleep(2) before the second try of a window
TIMEOUT_RETRY_SLEEP == 20

\* The shortest gap once a request is sent after sleeping for since.
GapAtRequest(minGap, since) ==
    IF since = -1 THEN minGap
    ELSE IF minGap = -1 THEN since
    ELSE Min(minGap, since)

\* The sleeps of fetch_with_retry after its last request, when it failed:
\* none after a status or payload error, RETRY_DELAY after a timeout or a
\* request error, RETRY_DELAY * 2 ** attempt after a 429.
SleepsAfterFailedFetch == {0, 20, 40, 80, 160}

\* s3.put_object(Bucket=S3_BUCKET, Key=f"{s3_prefix}/_manifest.json", ...)
\* with s3_prefix = f"cbb/incremental/{date_str}/games": the object under the
\* key of the day becomes the manifest.
PutManifest(bucket, day, m) == [bucket EXCEPT ![day] = <<m>>]

\* The days of the pulls of the dataset that ran before this one: none, or
\* one pull on some day up to today.
EarlierPulls == {<<>>} \cup {<<d>> : d \in Days}

\* The bucket after the pulls of the given days uploaded their manifests.
RECURSIVE TrailAfter(_)
TrailAfter(days) ==
    IF days = <<>> THEN EmptyTrail
    ELSE PutManifest(TrailAfter(SubSeq(days, 1, Len(days) - 1)),
                     days[Len(days)], NoManifest)

FetchStart(seasons) ==
    /\ job = "season_pull"
    /\ fSeason \in seasons
    /\ fComposite \in BOOLEAN
    /\ fPc = "loop"
    /\ fIdx = 1
    /\ fOut = <<>>
    /\ fSeen = {}
    /\ fFirst = [k \in 0..MaxId |-> NoRec]
    /\ fLast = fFirst
    /\ fSkipped = FALSE
    /\ rollLeft = 0
    /\ rollRecords = <<>>
    /\ rollOut = <<>>
    /\ rollErrors = <<>>
    /\ rollPc = "idle"
    /\ rollN = 0
    /\ rollLog = <<>>
    /\ manifest = NoManifest
    /\ rollResult = NoManifest
    /\ fSinceLast = -1
    /\ fMinGap = -1
    /\ pullDay = 0
    /\ s3 = EmptyTrail
    /\ uploads = 0

RollStart ==
    /\ job = "rolling_pull"
    /\ fSeason = 0
    /\ fComposite = FALSE
    /\ fPc = "idle"
    /\ fIdx = 1
    /\ fOut = <<>>
    /\ fSeen = {}
    /\ fFirst = <<>>
    /\ fLast = <<>>
    /\ fSkipped = FALSE
    /\ rollLeft \in 1..2
    /\ rollRecords = <<>>
    /\ rollOut = <<>>
    /\ rollErrors = <<>>
    /\ rollPc = "fetch"
    /\ rollN = rollLeft
    /\ rollLog = <<>>
    /\ manifest = NoManifest
    /\ rollResult = NoManifest
    /\ fSinceLast = -1
    /\ fMinGap = -1
    /\ pullDay = MaxDays
    /\ \E earlier \in EarlierPulls :
          /\ s3 = TrailAfter(earlier)
          /\ uploads = Len(earlier)

InitFetch ==
    /\ srv = <<>>
    /\ \/ FetchStart((FirstYear + 1)..LastYear)
       \/ RollStart
    /\ DagIdle
    /\ MergeIdle
    /\ PlanIdle
    /\ IncrIdle
    /\ RetryIdle
    /\ OrchIdle
    /\ FlattenIdle

InLoop ==
    /\ job = "season_pull"
    /\ fPc = "loop"
    /\ fIdx <= Len(MonthRanges(fSeason))

\* One window whose request (the first, or the second after a Timeout)
\* answers 200 with the list data.
FetchWindow(data) ==
    /\ InLoop
    /\ LET d == DedupeOnTheFly(data, fSeen, <<>>, fComposite)
       IN /\ fSeen' = d.seen
          /\ fOut' = fOut \o d.new
    /\ fFirst' = [k \in 0..MaxId |-> FirstOf(fFirst[k], data, k)]
    /\ fLast' = [k \in 0..MaxId |-> LastOf(fLast[k], data, k)]
    /\ fIdx' = fIdx + 1
    /\ fMinGap' = GapAtRequest(fMinGap, fSinceLast)
    /\ fSinceLast' = RATE_LIMIT_SLEEP
    /\ UNCHANGED <<job, srv, fSeason, fComposite, fPc, fSkipped, rollLeft,
                   rollRecords, rollOut, rollErrors, rollPc>>
    /\ UNCHANGED manifestVars
    /\ UNCHANGED trailVars
    /\ UNCHANGED nonFetchVars

\* One window skipped by a "continue": Timeout twice ("timeout"), a status
\* other than 200 ("status"), or a payload that is not a list ("payload").
FetchWindowSkipped(why) ==
    /\ InLoop
    /\ fIdx' = fIdx + 1
    /\ fSkipped' = TRUE
    /\ fMinGap' = IF why = "timeout"
                     THEN GapAtRequest(GapAtRequest(fMinGap, fSinceLast),
                                       TIMEOUT_RETRY_SLEEP)
                     ELSE GapAtRequest(fMinGap, fSinceLast)
    /\ fSinceLast' = 0
    /\ UNCHANGED <<job, srv, fSeason, fComposite, fPc, fOut, fSeen, fFirst, fLast,
                   rollLeft, rollRecords, rollOut, rollErrors, rollPc>>
    /\ UNCHANGED manifestVars
    /\ UNCHANGED trailVars
    /\ UNCHANGED nonFetchVars

\* The first request of a window raises something other than Timeout: only
\* Timeout is caught there, so the exception leaves fetch_by_date_ranges.
FetchWindowRaises ==
    /\ InLoop
    /\ fPc' = "raised"
    /\ fMinGap' = GapAtRequest(fMinGap, fSinceLast)
    /\ fSinceLast' = 0
    /\ UNCHANGED <<job, srv, fSeason, fComposite, fIdx, fOut, fSeen, fFirst, fLast,
                   fSkipped, rollLeft, rollRecords, rollOut, rollErrors, rollPc>>
    /\ UNCHANGED manifestVars
    /\ UNCHANGED trailVars
    /\ UNCHANGED nonFetchVars

\* return out
FetchReturn ==
    /\ job = "season_pull"
    /\ fPc = "loop"
    /\ fIdx > Len(MonthRanges(fSeason))
    /\ fPc' = "returned"
    /\ UNCHANGED <<fSinceLast, fMinGap>>
    /\ UNCHANGED <<job, srv, fSeason, fComposite, fIdx, fOut, fSeen, fFirst, fLast,
                   fSkipped, rollLeft, rollRecords, rollOut, rollErrors, rollPc>>
    /\ UNCHANGED manifestVars
    /\ UNCHANGED trailVars
    /\ UNCHANGED nonFetchVars

\* The season of the loop of _fetch_cbb_by_date_range, counted from
\* start_season.
RollSeason == rollN - rollLeft + 1

\* _fetch_cbb_by_date_range, one season whose fetch_with_retry succeeded.
RollSeasonOk(data) ==
    /\ job = "rolling_pull"
    /\ rollPc = "fetch"
    /\ rollLeft > 0
    /\ rollRecords' = rollRecords \o data
    /\ rollLeft' = rollLeft - 1
    /\ rollLog' = Append(rollLog, [season |-> RollSeason, ok |-> TRUE, data |-> data])
    /\ fMinGap' = GapAtRequest(fMinGap, fSinceLast)
    /\ fSinceLast' = 0
    /\ UNCHANGED <<job, srv, fSeason, fComposite, fPc, fIdx, fOut, fSeen,
                   fFirst, fLast, fSkipped, rollOut, rollErrors, rollPc,
                   rollN, manifest, rollResult>>
    /\ UNCHANGED trailVars
    /\ UNCHANGED nonFetchVars

\* _fetch_cbb_by_date_range, one season whose fetch_with_retry failed:
\* errors.append(f"Failed to fetch season {season}")
RollSeasonFailed(slept) ==
    /\ job = "rolling_pull"
    /\ rollPc = "fetch"
    /\ rollLeft > 0
    /\ rollErrors' = Append(rollErrors, RollSeason)
    /\ rollLeft' = rollLeft - 1
    /\ rollLog' = Append(rollLog, [season |-> RollSeason, ok |-> FALSE, data |-> <<>>])
    /\ fMinGap' = GapAtRequest(fMinGap, fSinceLast)
    /\ fSinceLast' = slept
    /\ UNCHANGED <<job, srv, fSeason, fComposite, fPc, fIdx, fOut, fSeen,
                   fFirst, fLast, fSkipped, rollRecords, rollOut, rollPc,
                   rollN, manifest, rollResult>>
    /\ UNCHANGED trailVars
    /\ UNCHANGED nonFetchVars

\* Mutant of ManifestSuccess: the manifest always reports success.
ManifestSuccessAlways(errors) == TRUE

\* success=len(errors) == 0
ManifestSuccess(errors) == Len(errors) = 0

\* create_manifest(sport, endpoint, start_date, end_date, record_count,
\* success, errors)
CreateManifest(record_count, success, errors) ==
    [record_count |-> record_count, success |-> success, errors |-> errors]

\* The rest of pull_cbb_games after the fetch: dedupe_records, save_to_local,
\* create_manifest, upload_to_s3 (which returns s3_success) and the return.
RollDedupe(s3_success) ==
    /\ job = "rolling_pull"
    /\ rollPc = "fetch"
    /\ rollLeft = 0
    /\ rollOut' = DedupeRecords(rollRecords, {})
    /\ manifest' = CreateManifest(Len(rollOut'), ManifestSuccess(rollErrors),
                                  rollErrors)
    /\ rollResult' = [record_count |-> Len(rollOut'),
                      success |-> Len(rollErrors) = 0 /\ s3_success,
                      errors |-> rollErrors]
    /\ rollPc' = "done"
    /\ s3' = IF s3_success THEN PutManifest(s3, pullDay, manifest') ELSE s3
    /\ uploads' = IF s3_success THEN uploads + 1 ELSE uploads
    /\ UNCHANGED <<fSinceLast, fMinGap, pullDay>>
    /\ UNCHANGED <<job, srv, fSeason, fComposite, fPc, fIdx, fOut, fSeen,
                   fFirst, fLast, fSkipped, rollLeft, rollRecords, rollErrors,
                   rollN, rollLog>>
    /\ UNCHANGED nonFetchVars

SkipReasons == {"timeout", "status", "payload"}

NextFetch ==
    \/ \E data \in Responses : FetchWindow(data)
    \/ \E why \in SkipReasons : FetchWindowSkipped(why)
    \/ FetchWindowRaises
    \/ FetchReturn
    \/ \E data \in Responses : RollSeasonOk(data)
    \/ \E slept \in SleepsAfterFailedFetch : RollSeasonFailed(slept)
    \/ \E s3_success \in BOOLEAN : RollDedupe(s3_success)

SpecFetch == InitFetch /\ [][NextFetch]_vars

\* C6: extraction-stage dedup is first-occurrence-wins: neither out of
\* fetch_by_date_ranges nor the result of dedupe_records holds two records
\* with the same natural key, and the record kept for a key is the earliest
\* one returned for it.
C6_FirstOccurrenceWins ==
    /\ \A i, j \in 1..Len(fOut) : fOut[i].id = fOut[j].id => i = j
    /\ \A i \in 1..Len(fOut) : fOut[i] = fFirst[fOut[i].id]
    /\ rollPc = "done" =>
          /\ \A i, j \in 1..Len(rollOut) : rollOut[i].id = rollOut[j].id => i = j
          /\ \A i \in 1..Len(rollOut) :
                \E n \in 1..Len(rollRecords) :
                   /\ rollRecords[n] = rollOut[i]
                   /\ \A m \in 1..(n - 1) : rollRecords[m].id # rollOut[i].id

\* fetch_by_date_ranges returned after a later response repeated a key with
\* other field values, and out holds the first version.
C6_Witness ==
    /\ fPc = "returned"
    /\ \E i \in 1..Len(fOut) :
          /\ fLast[fOut[i].id] # fFirst[fOut[i].id]
          /\ fOut[i] = fFirst[fOut[i].id]

\* C30: extraction dedup loses no fetched record: every record a successfully
\* fetched window returned is in the output of fetch_by_date_ranges, or an
\* earlier-fetched record with the same key is; records without the key
\* field (key None) included.
C30_NoFetchedRecordLost ==
    job = "season_pull" =>
        \A k \in 0..MaxId :
            fFirst[k] # NoRec => \E i \in 1..Len(fOut) : fOut[i].id = k

\* The seasons of the rolling pull whose request failed, and the ids of the
\* records the other seasons returned.
FailedSeasons == {rollLog[i].season : i \in {j \in 1..Len(rollLog) : ~rollLog[j].ok}}

IdsOfSucceeded ==
    UNION {{rollLog[i].data[n].id : n \in 1..Len(rollLog[i].data)} :
              i \in {j \in 1..Len(rollLog) : rollLog[j].ok}}

\* C15: when the request of a season of a rolling pull failed, the manifest
\* has success = false, its errors name every failed season, and its
\* record_count is the number of distinct records of the succeeded seasons.
C15_ManifestAccuracy ==
    (rollPc = "done" /\ FailedSeasons # {}) =>
        /\ ~manifest.success
        /\ \A f \in FailedSeasons :
              \E i \in 1..Len(manifest.errors) : manifest.errors[i] = f
        /\ manifest.record_count = Cardinality(IdsOfSucceeded)

\* A pull over two seasons: one failed, the other returned two records.
C15_Witness ==
    /\ rollPc = "done"
    /\ rollN = 2
    /\ Cardinality(FailedSeasons) = 1
    /\ manifest.record_count = 2
    /\ manifest.errors # <<>>
    /\ ~manifest.success

\* C27: the manifest trail is append-only: a later pull never overwrites or
\* removes the manifest of an earlier pull, so after n pulls that uploaded a
\* manifest n manifest entries exist.
C27_ManifestTrailAppendOnly ==
    Cardinality({d \in Days : s3[d] # <<>>}) = uploads

\* C25: between two consecutive requests of an extraction pass the code
\* sleeps at least RATE_LIMIT_SLEEP, whatever the outcome of the earlier one,
\* in fetch_by_date_ranges and between the seasons of a rolling pull.
C25_Pacing ==
    fMinGap = -1 \/ fMinGap >= RATE_LIMIT_SLEEP

\* C14: fetch_by_date_ranges never raises because of one window's failure:
\* whatever happens to a window's request, the loop goes on to the remaining
\* windows of the season and the function returns.
C14_WindowFailureIsolated ==
    job = "season_pull" => fPc # "raised"

\* ------------------------------------------------------------------------
\* A full-season pull against a provider that filters by the date window and
\* silently truncates every response to Cap records
\* ------------------------------------------------------------------------
\* Start dates a record of the season can have (all within Nov..Apr).
SeasonDates(season) ==
    {<<season - 1, 11, 1>>, <<season - 1, 11, 30>>, <<season - 1, 12, 31>>,
     <<season, 1, 1>>, <<season, 2, 28>>, <<season, 3, 1>>, <<season, 4, 30>>}
       \cup (IF IsLeapYear(season) THEN {<<season, 2, 29>>} ELSE {})

RECURSIVE SortedSeq(_)
SortedSeq(S) ==
    IF S = {} THEN <<>>
    ELSE LET m == CHOOSE x \in S : \A y \in S : x <= y
         IN <<m>> \o SortedSeq(S \ {m})

\* Ids of the records whose start date lies in window w.
IdsInWindow(w) == {i \in 1..NumRec : InWindow(srv[i], w)}

\* The provider's answer to startDateRange/endDateRange = w.
ProviderResponse(w) ==
    LET ids == SortedSeq(IdsInWindow(w))
        n == Min(Cap, Len(ids))
    IN [i \in 1..n |-> [id |-> ids[i], ver |-> 1]]

InitSeason ==
    /\ FetchStart((FirstYear + 1)..LastYear)
    /\ srv \in [1..NumRec -> SeasonDates(fSeason)]
    /\ DagIdle
    /\ MergeIdle
    /\ PlanIdle
    /\ IncrIdle
    /\ RetryIdle
    /\ OrchIdle
    /\ FlattenIdle

FetchWindowFromProvider ==
    /\ InLoop
    /\ FetchWindow(ProviderResponse(MonthRanges(fSeason)[fIdx]))

NextSeason ==
    \/ FetchWindowFromProvider
    \/ \E why \in SkipReasons : FetchWindowSkipped(why)
    \/ FetchWindowRaises
    \/ FetchReturn

SpecSeason == InitSeason /\ [][NextSeason]_vars

\* No calendar month of the season holds more records than the cap (the
\* sizing policy of the planner).
MonthsUnderCap ==
    \A m \in 1..12 :
        Cardinality({i \in 1..NumRec : srv[i][2] = m}) <= Cap

\* C9: a full-season pull over all monthly sub-windows of a season with more
\* records than the cap (no request failing, no month above the cap) returns
\* every record of the season.
C9_CompleteUnderChunking ==
    (fPc = "returned" /\ ~fSkipped /\ NumRec > Cap /\ MonthsUnderCap)
       => \A i \in 1..NumRec : \E n \in 1..Len(fOut) : fOut[n].id = i

HasKey(rows, k) == \E i \in 1..Len(rows) : rows[i].k = k

KeysOf(rows) == {rows[i].k : i \in 1..Len(rows)}

\* df = df[df[pk_col].notna()]
RECURSIVE FilterNullPk(_)
FilterNullPk(vals) ==
    IF vals = <<>> THEN <<>>
    ELSE IF Head(vals).k = NullKey THEN FilterNullPk(Tail(vals))
         ELSE <<Head(vals)>> \o FilterNullPk(Tail(vals))

\* Mutant of CreateTablePrimaryKey: the PRIMARY KEY clause is never emitted.
CreateTableNoPrimaryKey(is_cdc) == FALSE

\* generate_create_table: the PRIMARY KEY constraint is emitted for the main
\* table of a dataset and not for its stg_ table.
CreateTablePrimaryKey(is_cdc) == ~is_cdc

\* Mutant of UpdateRow: the conflicting row is left as it is (DO NOTHING).
UpdateRowKeepOld(old, new, stamp) == old

\* Mutant of UpdateRow: the conflict branch also stamps load_date.
UpdateRowStamped(old, new, stamp) == [old EXCEPT !.v = new.v, !.ld = stamp]

\* DO UPDATE SET <non-pk col> = EXCLUDED.<non-pk col>: load_date is not in the
\* column list of the DataFrame, so it keeps its value.
UpdateRow(old, new, stamp) == [old EXCEPT !.v = new.v]

\* One statement INSERT ... VALUES <vals> ON CONFLICT (pk) DO UPDATE SET ...
\* run by the database: a NULL key violates NOT NULL, and a key proposed
\* twice by the same statement is an error.
RECURSIVE OnConflictDoUpdate(_, _, _, _)
OnConflictDoUpdate(rows, vals, touched, stamp) ==
    IF vals = <<>> THEN [ok |-> TRUE, rows |-> rows]
    ELSE LET r == Head(vals) IN
         IF r.k = NullKey \/ r.k \in touched
            THEN [ok |-> FALSE, rows |-> rows]
         ELSE IF HasKey(rows, r.k)
            THEN OnConflictDoUpdate(
                    [i \in 1..Len(rows) |->
                        IF rows[i].k = r.k THEN UpdateRow(rows[i], r, stamp)
                                           ELSE rows[i]],
                    Tail(vals), touched \cup {r.k}, stamp)
         ELSE OnConflictDoUpdate(
                    Append(rows, [k |-> r.k, v |-> r.v, ld |-> stamp]),
                    Tail(vals), touched \cup {r.k}, stamp)

\* One statement INSERT ... VALUES <vals> without a conflict clause.
RECURSIVE PlainInsert(_, _, _, _)
PlainInsert(rows, vals, hasPk, stamp) ==
    IF vals = <<>> THEN [ok |-> TRUE, rows |-> rows]
    ELSE LET r == Head(vals) IN
         IF hasPk /\ (r.k = NullKey \/ HasKey(rows, r.k))
            THEN [ok |-> FALSE, rows |-> rows]
         ELSE PlainInsert(Append(rows, [k |-> r.k, v |-> r.v, ld |-> stamp]),
                          Tail(vals), hasPk, stamp)

\* A statement against table t; ON CONFLICT needs the table and a unique
\* constraint on the conflict target.
Statement(kind, t, rows, vals, stamp) ==
    IF ~t.exists THEN [ok |-> FALSE, rows |-> rows]
    ELSE IF kind = "upsert"
       THEN IF t.hasPk THEN OnConflictDoUpdate(rows, vals, {}, stamp)
                       ELSE [ok |-> FALSE, rows |-> rows]
    ELSE PlainInsert(rows, vals, t.hasPk, stamp)

\* execute_values(cur, sql, values, page_size): one statement per page.
RECURSIVE ExecuteValues(_, _, _, _, _)
ExecuteValues(kind, t, rows, vals, stamp) ==
    IF vals = <<>> THEN [ok |-> TRUE, rows |-> rows]
    ELSE LET n == Min(PageSize, Len(vals))
             r == Statement(kind, t, rows, SubSeq(vals, 1, n), stamp)
         IN IF ~r.ok THEN r
            ELSE ExecuteValues(kind, t, r.rows, SubSeq(vals, n + 1, Len(vals)), stamp)

\* conn.execute(text(query), records): one statement per record.
RECURSIVE ExecuteMany(_, _, _, _, _)
ExecuteMany(kind, t, rows, vals, stamp) ==
    IF vals = <<>> THEN [ok |-> TRUE, rows |-> rows]
    ELSE LET r == Statement(kind, t, rows, <<Head(vals)>>, stamp)
         IN IF ~r.ok THEN r
            ELSE ExecuteMany(kind, t, r.rows, Tail(vals), stamp)

\* Mutant of Committed: every statement is committed as it runs (autocommit).
CommittedAutocommit(before, r) == r.rows

\* conn.commit() follows the last statement, the connection is not in
\* autocommit mode and nothing catches the exception of a failed statement:
\* the rows written by a transaction are kept only when it did not fail.
Committed(before, r) == IF r.ok THEN r.rows ELSE before

\* The record of a merge call.
MergeCall(op, f, ok) ==
    [op |-> op, file |-> f, ok |-> ok,
     repeat |-> lastMerge.op = op /\ lastMerge.file = f]

\* What every merge call does besides writing the table.
MergeBookkeeping ==
    /\ calls < MaxCalls
    /\ calls' = calls + 1
    /\ now' = now + 1
    /\ tblBefore' = tbl
    /\ UNCHANGED store

InitMerge ==
    /\ store \in {"cbb", "cbb_raw"}
    /\ tbl \in IF store = "cbb"
               THEN {[exists |-> e, hasPk |-> CreateTablePrimaryKey(FALSE),
                      rows |-> <<>>] : e \in BOOLEAN}
               ELSE {[exists |-> FALSE, hasPk |-> FALSE, rows |-> <<>>]}
    /\ tblBefore = tbl
    /\ lastMerge = NoMerge
    /\ calls = 0
    /\ now = 1
    /\ DagIdle
    /\ PlanIdle
    /\ FetchIdle
    /\ IncrIdle
    /\ RetryIdle
    /\ OrchIdle
    /\ FlattenIdle

\* load_cdc_to_postgres.upsert_table(name, data_dir, conn)
UpsertTable(f) ==
    /\ store = "cbb"
    /\ MergeBookkeeping
    /\ IF ~f.present \/ f.rows = <<>>
          THEN /\ tbl' = tbl
               /\ lastMerge' = MergeCall("upsert_table", f, TRUE)
          ELSE LET r == ExecuteValues("upsert", tbl, tbl.rows,
                                      FilterNullPk(f.rows), now)
               IN /\ tbl' = [tbl EXCEPT !.rows = Committed(tbl.rows, r)]
                  /\ lastMerge' = MergeCall("upsert_table", f, r.ok)
    /\ UNCHANGED nonMergeVars

\* load_to_postgres.load_table(name, data_dir, conn): TRUNCATE, then INSERT.
LoadTable(f) ==
    /\ store = "cbb"
    /\ MergeBookkeeping
    /\ IF ~f.present \/ f.rows = <<>>
          THEN /\ tbl' = tbl
               /\ lastMerge' = MergeCall("load_table", f, TRUE)
          ELSE LET r == IF tbl.exists
                           THEN ExecuteValues("insert", tbl, <<>>,
                                              FilterNullPk(f.rows), now)
                           ELSE [ok |-> FALSE, rows |-> tbl.rows]
               IN /\ tbl' = [tbl EXCEPT !.rows = Committed(tbl.rows, r)]
                  /\ lastMerge' = MergeCall("load_table", f, r.ok)
    /\ UNCHANGED nonMergeVars

\* create_table_from_df(engine, df, table_name, schema, primary_keys):
\* pkAdded is whether ALTER TABLE ... ADD PRIMARY KEY went through.
CreateTableFromDf(t, pkAdded) ==
    IF t.exists THEN t
    ELSE [exists |-> TRUE, hasPk |-> pkAdded, rows |-> <<>>]

\* cbb_v2.common.upsert_dataframe(engine, df, table_name, schema,
\* primary_keys), as every loader calls it (primary_keys given,
\* update_on_conflict left True, at least one non-key column).
UpsertDataframe(df, pkAdded) ==
    /\ store = "cbb_raw"
    /\ MergeBookkeeping
    /\ IF df.rows = <<>>
          THEN /\ tbl' = tbl
               /\ lastMerge' = MergeCall("upsert_dataframe", df, TRUE)
          ELSE LET t == CreateTableFromDf(tbl, pkAdded)
                   r == ExecuteMany("upsert", t, t.rows, df.rows, 0)
               IN /\ tbl' = [t EXCEPT !.rows = Committed(t.rows, r)]
                  /\ lastMerge' = MergeCall("upsert_dataframe", df, r.ok)
    /\ UNCHANGED nonMergeVars

NextMerge ==
    \/ \E f \in Files : UpsertTable(f)
    \/ \E f \in Files : LoadTable(f)
    \/ \E df \in DataFrames : \E pkAdded \in BOOLEAN : UpsertDataframe(df, pkAdded)

SpecMerge == InitMerge /\ [][NextMerge]_vars

\* ------------------------------------------------------------------------
\* Properties of the merge operations
\* ------------------------------------------------------------------------
IsUpsert(m) == m.op \in {"upsert_table", "upsert_dataframe"}

\* The value the last row of vals with key k carries.
LastValue(vals, k) ==
    vals[CHOOSE i \in 1..Len(vals) :
            /\ vals[i].k = k
            /\ \A j \in (i + 1)..Len(vals) : vals[j].k # k].v

RowsWithKey(rows, k) == {i \in 1..Len(rows) : rows[i].k = k}

\* C4: applying the same batch through the same upsert once more leaves the
\* persistent table with the same rows and column values (load_date too).
C4_UpsertIdempotent ==
    (IsUpsert(lastMerge) /\ lastMerge.repeat) => tbl = tblBefore

\* A non-empty batch was upserted twice in a row and both rows are there.
C4_Witness ==
    /\ IsUpsert(lastMerge)
    /\ lastMerge.repeat
    /\ lastMerge.ok
    /\ Len(lastMerge.file.rows) = 2
    /\ Len(tbl.rows) = 2
    /\ tbl = tblBefore

\* C28: an upsert that overwrites an existing row on key conflict stamps the
\* row's load_date with the time of the merge: after a successful upsert every
\* row whose key was both in the table and in the batch carries the time of
\* that merge as its load_date.
C28_ConflictStampsLoadDate ==
    (IsUpsert(lastMerge) /\ lastMerge.ok) =>
        \A i \in 1..Len(tbl.rows) :
            tbl.rows[i].k \in KeysOf(tblBefore.rows)
                                 \cap KeysOf(FilterNullPk(lastMerge.file.rows))
                => tbl.rows[i].ld = now - 1

\* C5: a successful upsert of batch B into a table holding batch A's rows
\* yields exactly one row per key of keys(A) union keys(B); keys of B carry
\* B's (latest) values, keys only in A keep A's row.
C5_LatestWriteWins ==
    (IsUpsert(lastMerge) /\ lastMerge.ok /\ lastMerge.file.rows # <<>>) =>
        LET A == tblBefore.rows
            B == FilterNullPk(lastMerge.file.rows)
        IN /\ \A k \in Keys :
                 Cardinality(RowsWithKey(tbl.rows, k)) =
                     IF k \in KeysOf(A) \cup KeysOf(B) THEN 1 ELSE 0
           /\ \A i \in 1..Len(tbl.rows) :
                 /\ tbl.rows[i].k \in KeysOf(B)
                       => tbl.rows[i].v = LastValue(B, tbl.rows[i].k)
                 /\ tbl.rows[i].k \notin KeysOf(B)
                       => \E j \in 1..Len(A) : A[j] = tbl.rows[i]

\* Batch B overwrote the value of a key of A and left another key of A alone.
C5_Witness ==
    /\ IsUpsert(lastMerge)
    /\ lastMerge.ok
    /\ \E i \in 1..Len(tblBefore.rows) : \E j \in 1..Len(tbl.rows) :
          /\ tblBefore.rows[i].k = tbl.rows[j].k
          /\ tblBefore.rows[i].k \in KeysOf(lastMerge.file.rows)
          /\ tblBefore.rows[i].v # tbl.rows[j].v
    /\ \E i \in 1..Len(tblBefore.rows) :
          tblBefore.rows[i].k \notin KeysOf(lastMerge.file.rows)

\* C7: no two rows of the persistent table have the same natural key,
\* whatever sequence of upsert_dataframe, upsert_table and load_table ran.
C7_NaturalKeyUnique ==
    \A i, j \in 1..Len(tbl.rows) :
        tbl.rows[i].k = tbl.rows[j].k => i = j

\* A merge of a file repeating a key went through on a table with two rows.
C7_Witness ==
    /\ calls >= 2
    /\ lastMerge.ok
    /\ Len(lastMerge.file.rows) = 2
    /\ lastMerge.file.rows[1].k = lastMerge.file.rows[2].k
    /\ lastMerge.file.rows[1].k # NullKey
    /\ Len(tbl.rows) = 2

\* ------------------------------------------------------------------------
\* upsert_incremental.py: load_to_staging, run_upsert, main
\* ------------------------------------------------------------------------
\* The parquet file of one table in today's directory: absent, empty, with
\* no column known to the staging table, or with rows (their keys).
IncrFiles ==
    [kind : {"missing", "empty"}, keys : {<<>>}]
       \cup [kind : {"nomatch", "rows"},
             keys : SeqsUpTo(0..MaxKey, MaxBatch) \ {<<>>}]

RECURSIVE NotNullKeys(_)
NotNullKeys(ks) ==
    IF ks = <<>> THEN <<>>
    ELSE IF Head(ks) = NullKey THEN NotNullKeys(Tail(ks))
         ELSE <<Head(ks)>> \o NotNullKeys(Tail(ks))

\* The staging table after load_to_staging(name, data_dir, conn) returned.
StagingAfterLoad(old, f, run) ==
    IF f.kind \in {"missing", "empty"} THEN old          \* return 0 before TRUNCATE
    ELSE IF f.kind = "nomatch" THEN old                  \* TRUNCATE, then conn.rollback()
    ELSE [i \in 1..Len(NotNullKeys(f.keys)) |->
             [k |-> NotNullKeys(f.keys)[i], run |-> run]]

\* generate_upsert: INSERT INTO main SELECT ... FROM stg ON CONFLICT (pk)
\* DO UPDATE SET <cols> = EXCLUDED.<cols>, load_date = NOW(), one statement.
RECURSIVE UpsertFromStaging(_, _, _, _)
UpsertFromStaging(rows, vals, touched, stamp) ==
    IF vals = <<>> THEN [ok |-> TRUE, rows |-> rows]
    ELSE LET r == Head(vals) IN
         IF r.k \in touched THEN [ok |-> FALSE, rows |-> rows]
         ELSE IF HasKey(rows, r.k)
            THEN UpsertFromStaging(
                    [i \in 1..Len(rows) |->
                        IF rows[i].k = r.k
                           THEN [rows[i] EXCEPT !.v = r.run, !.ld = stamp]
                           ELSE rows[i]],
                    Tail(vals), touched \cup {r.k}, stamp)
         ELSE UpsertFromStaging(
                    Append(rows, [k |-> r.k, v |-> r.run, ld |-> stamp]),
                    Tail(vals), touched \cup {r.k}, stamp)

\* Whether every statement of upsert_from_staging.sql goes through.
UpsertSqlOk ==
    /\ CreateTablePrimaryKey(FALSE)
    /\ \A t \in IncrTables : UpsertFromStaging(mainT[t], stg[t], {}, incrRun).ok

InitIncr ==
    /\ incrPc = "idle"
    /\ incrRun = 0
    /\ incrIdx = 1
    /\ stg = [t \in IncrTables |-> <<>>]
    /\ mainT = [t \in IncrTables |-> <<>>]
    /\ incrFileRows = [t \in IncrTables |-> 0]
    /\ incrOutcome = "none"
    /\ DagIdle
    /\ MergeIdle
    /\ PlanIdle
    /\ FetchIdle
    /\ RetryIdle
    /\ OrchIdle
    /\ FlattenIdle

\* main(): today's data directory exists, a connection is opened.
IncrStart ==
    /\ incrPc \in {"idle", "done", "aborted", "raised"}
    /\ incrRun < MaxRuns
    /\ incrRun' = incrRun + 1
    /\ incrIdx' = 1
    /\ incrPc' = "load"
    /\ incrFileRows' = [t \in IncrTables |-> 0]
    /\ incrOutcome' = "running"
    /\ UNCHANGED <<stg, mainT>>
    /\ UNCHANGED nonIncrVars

\* main(): "No incremental data found" and return.
IncrNoDataDir ==
    /\ incrPc \in {"idle", "done", "aborted", "raised"}
    /\ incrRun < MaxRuns
    /\ incrRun' = incrRun + 1
    /\ incrPc' = "done"
    /\ incrFileRows' = [t \in IncrTables |-> 0]
    /\ incrOutcome' = "no_data_dir"
    /\ UNCHANGED <<incrIdx, stg, mainT>>
    /\ UNCHANGED nonIncrVars

\* One iteration of "for name in load_order": load_to_staging returns.
LoadToStaging(f) ==
    /\ incrPc = "load"
    /\ incrIdx <= NumTables
    /\ stg' = [stg EXCEPT ![incrIdx] = StagingAfterLoad(stg[incrIdx], f, incrRun)]
    /\ incrFileRows' = [incrFileRows EXCEPT ![incrIdx] = Len(f.keys)]
    /\ incrIdx' = incrIdx + 1
    /\ UNCHANGED <<incrPc, incrRun, mainT, incrOutcome>>
    /\ UNCHANGED nonIncrVars

\* The process dies or a database call of the loop raises: nothing
\* uncommitted survives, staging keeps what earlier iterations committed.
IncrAbort ==
    /\ incrPc = "load"
    /\ incrPc' = "aborted"
    /\ incrOutcome' = "aborted"
    /\ UNCHANGED <<incrRun, incrIdx, stg, mainT, incrFileRows>>
    /\ UNCHANGED nonIncrVars

AtRunUpsert == incrPc = "load" /\ incrIdx > NumTables

\* run_upsert(conn, ddl_dir) executes upsert_from_staging.sql and commits:
\* every table is merged and its staging table truncated.
RunUpsert ==
    /\ AtRunUpsert
    /\ UpsertSqlOk
    /\ mainT' = [t \in IncrTables |->
                    UpsertFromStaging(mainT[t], stg[t], {}, incrRun).rows]
    /\ stg' = [t \in IncrTables |-> <<>>]
    /\ incrPc' = "done"
    /\ incrOutcome' = "merged"
    /\ UNCHANGED <<incrRun, incrIdx, incrFileRows>>
    /\ UNCHANGED nonIncrVars

\* run_upsert: a statement of the script fails, the transaction is lost and
\* the exception leaves main().
RunUpsertRaises ==
    /\ AtRunUpsert
    /\ ~UpsertSqlOk
    /\ incrPc' = "raised"
    /\ incrOutcome' = "merge_failed"
    /\ mainT' = [t \in IncrTables |->
                    Committed(mainT[t],
                              [ok |-> FALSE,
                               rows |-> UpsertFromStaging(mainT[t], stg[t], {},
                                                          incrRun).rows])]
    /\ UNCHANGED <<incrRun, incrIdx, stg, incrFileRows>>
    /\ UNCHANGED nonIncrVars

\* run_upsert: "Upsert SQL not found" and return; main prints "Done!" and
\* returns.
RunUpsertNoSql ==
    /\ AtRunUpsert
    /\ incrPc' = "done"
    /\ incrOutcome' = "no_upsert_sql"
    /\ UNCHANGED <<incrRun, incrIdx, stg, mainT, incrFileRows>>
    /\ UNCHANGED nonIncrVars

NextIncr ==
    \/ IncrStart
    \/ IncrNoDataDir
    \/ \E f \in IncrFiles : LoadToStaging(f)
    \/ IncrAbort
    \/ RunUpsert
    \/ RunUpsertRaises
    \/ RunUpsertNoSql

SpecIncr == InitIncr /\ [][NextIncr]_vars

\* ------------------------------------------------------------------------
\* The persistent store under all of its merge paths: the cbb / cbb_raw
\* loaders and upsert_incremental.
\* ------------------------------------------------------------------------
InitStore == InitMerge \/ InitIncr

NextStore == NextMerge \/ NextIncr

SpecStore == InitStore /\ [][NextStore]_vars

\* A step in which upsert_table, load_table or run_upsert raised.
MergeFailedStep ==
    \/ /\ calls' = calls + 1
       /\ lastMerge'.op \in {"upsert_table", "load_table"}
       /\ ~lastMerge'.ok
    \/ incrPc = "load" /\ incrIdx > NumTables /\ incrPc' = "raised"

\* C11: a merge that fails part-way (upsert_table, load_table's
\* truncate+insert, run_upsert) leaves the persistent table with exactly the
\* content it had before the merge began.
C11_FailedMergeLeavesStore ==
    [][MergeFailedStep => (tbl' = tbl /\ mainT' = mainT)]_vars

\* load_table failed on a table that held rows: its TRUNCATE and the pages
\* inserted before the failing one did not survive.
C11_Witness ==
    /\ lastMerge.op = "load_table"
    /\ ~lastMerge.ok
    /\ Len(FilterNullPk(lastMerge.file.rows)) = 2
    /\ tblBefore.rows # <<>>
    /\ tbl = tblBefore

\* Rows of a staging table that the current run loaded.
LandedThisRun(t) == Cardinality({i \in 1..Len(stg[t]) : stg[t][i].run = incrRun})

\* C22: run_upsert merges a dataset only after the row count landed in its
\* staging table was found equal to the count extracted for it (the rows of
\* its parquet file); a mismatch prevents the merge.
C22_MergeOnlyAfterValidated ==
    [][RunUpsert => \A t \in IncrTables :
                       /\ Len(stg[t]) = incrFileRows[t]
                       /\ LandedThisRun(t) = incrFileRows[t]]_vars

\* C23: when upsert_incremental cannot perform the merge (no upsert SQL
\* file, no data directory for today), main does not return normally.
C23_MergeErrorsSurface ==
    incrOutcome \in {"no_upsert_sql", "no_data_dir"} => incrPc # "done"

\* C10: at the moment run_upsert executes, every staging table holds only
\* rows loaded by the current run (or is empty).
C10_NoStaleStagingAtUpsert ==
    AtRunUpsert =>
        \A t \in IncrTables : \A i \in 1..Len(stg[t]) : stg[t][i].run = incrRun

\* ------------------------------------------------------------------------
\* incremental/_common.py: fetch_with_retry
\* ------------------------------------------------------------------------
RETRY_DELAY == 2

\* Outcomes of a request after which the for loop goes on.
Transient == {"timeout", "request_error"}

Retryable == Transient \cup {"rate_limited"}

\* Mutant of SleepAfterTransient: the delay doubles with every attempt.
SleepAfterTransientBackoff(attempt) == RETRY_DELAY * (2 ^ attempt)

\* time.sleep(RETRY_DELAY) of the two except clauses
SleepAfterTransient(attempt) == RETRY_DELAY

\* wait_time = RETRY_DELAY * (2 ** attempt)
SleepAfterRateLimit(attempt) == RETRY_DELAY * (2 ^ attempt)

\* for attempt in range(1, max_retries + 1)
InRetryLoop == rPc = "try" /\ rAttempt <= rMax

InitRetry ==
    /\ rPc = "try"
    /\ rMax \in 0..MaxRetriesArg
    /\ rAttempt = 1
    /\ rLog = <<>>
    /\ rSleeps = <<>>
    /\ rResult = [data |-> <<>>, ok |-> FALSE]
    /\ DagIdle
    /\ MergeIdle
    /\ PlanIdle
    /\ FetchIdle
    /\ IncrIdle
    /\ OrchIdle
    /\ FlattenIdle

\* A request that ends the call: "return data, True" or "return [], False".
RetryReturn(outcome, data, ok) ==
    /\ rLog' = Append(rLog, outcome)
    /\ rResult' = [data |-> data, ok |-> ok]
    /\ rPc' = "returned"
    /\ UNCHANGED <<rMax, rAttempt, rSleeps>>
    /\ UNCHANGED nonRetryVars

\* A request after which the loop sleeps and moves to the next attempt.
RetryAgain(outcome, wait_time) ==
    /\ rLog' = Append(rLog, outcome)
    /\ rSleeps' = Append(rSleeps, wait_time)
    /\ rAttempt' = rAttempt + 1
    /\ UNCHANGED <<rPc, rMax, rResult>>
    /\ UNCHANGED nonRetryVars

\* status 200 and a list
RequestOk(data) ==
    /\ InRetryLoop
    /\ RetryReturn("ok", data, TRUE)

\* status 200 and something that is not a list
RequestNotList ==
    /\ InRetryLoop
    /\ RetryReturn("not_list", <<>>, FALSE)

\* Mutant of RequestHttpError: the status is treated as a transient failure.
RequestHttpErrorRetried ==
    /\ InRetryLoop
    /\ RetryAgain("http_error", SleepAfterTransient(rAttempt))

\* a status other than 200 and 429
RequestHttpError ==
    /\ InRetryLoop
    /\ RetryReturn("http_error", <<>>, FALSE)

\* status 429
RequestRateLimited ==
    /\ InRetryLoop
    /\ RetryAgain("rate_limited", SleepAfterRateLimit(rAttempt))

\* requests.exceptions.Timeout
RequestTimeout ==
    /\ InRetryLoop
    /\ RetryAgain("timeout", SleepAfterTransient(rAttempt))

\* any other requests.exceptions.RequestException
RequestError ==
    /\ InRetryLoop
    /\ RetryAgain("request_error", SleepAfterTransient(rAttempt))

\* The loop ran out of attempts: "FAILED after ..." and return [], False.
RetryGiveUp ==
    /\ rPc = "try"
    /\ rAttempt > rMax
    /\ rResult' = [data |-> <<>>, ok |-> FALSE]
    /\ rPc' = "returned"
    /\ UNCHANGED <<rMax, rAttempt, rLog, rSleeps>>
    /\ UNCHANGED nonRetryVars

NextRetry ==
    \/ \E data \in Responses : RequestOk(data)
    \/ RequestNotList
    \/ RequestHttpError
    \/ RequestRateLimited
    \/ RequestTimeout
    \/ RequestError
    \/ RetryGiveUp

SpecRetry == InitRetry /\ [][NextRetry]_vars

\* The requests of the call that ended in the given outcomes.
RequestsEnding(outcomes) == {i \in 1..Len(rLog) : rLog[i] \in outcomes}

\* C12: one call issues at most max_retries requests; after each attempt that
\* ends in a timeout or a connection error it sleeps RETRY_DELAY; when every
\* attempt ended so, it returns ([], False).
C12_BoundedRetry ==
    /\ Len(rLog) <= rMax
    /\ \A i \in RequestsEnding(Transient) : rSleeps[i] = RETRY_DELAY
    /\ (rPc = "returned" /\ Cardinality(RequestsEnding(Transient)) = rMax)
          => rResult = [data |-> <<>>, ok |-> FALSE]

\* A call whose attempts all failed, by timeouts and by connection errors,
\* has returned.
C12_Witness ==
    /\ rPc = "returned"
    /\ rMax >= 2
    /\ Len(rLog) = rMax
    /\ RequestsEnding({"timeout"}) # {}
    /\ RequestsEnding({"request_error"}) # {}
    /\ RequestsEnding(Transient) = 1..rMax
    /\ Len(rSleeps) = rMax
    /\ rResult = [data |-> <<>>, ok |-> FALSE]

\* Outcomes that are not transient: a status other than 200 and 429, and a
\* 200 whose body is not a list.
NonTransient == {"http_error", "not_list"}

\* C24: a non-transient outcome is not retried: fetch_with_retry returns
\* ([], False) at once, without a further request.
C24_NonTransientNotRetried ==
    \A i \in RequestsEnding(NonTransient) :
        /\ i = Len(rLog)
        /\ rPc = "returned"
        /\ rResult = [data |-> <<>>, ok |-> FALSE]

\* After a timeout the second request got a non-200 status and the call
\* returned with attempts to spare.
C24_Witness ==
    /\ rPc = "returned"
    /\ Len(rLog) = 2
    /\ rLog[1] = "timeout"
    /\ rLog[2] = "http_error"
    /\ rMax > 2
    /\ rResult = [data |-> <<>>, ok |-> FALSE]

\* The call gave up: it left the loop without a request that ended it.
GaveUp ==
    /\ rPc = "returned"
    /\ Len(rLog) = rMax
    /\ (rMax > 0 => rLog[rMax] \in Retryable)

\* C13: 429 responses do not use up the attempts available for timeouts and
\* connection errors: a call gives up only after max_retries of its requests
\* ended in a timeout or a connection error.
C13_SeparateBudgets ==
    GaveUp => Cardinality(RequestsEnding(Transient)) = rMax

\* ------------------------------------------------------------------------
\* Orchestrators: cbb_v2/run_ingest.py (run_ingest, main) and
\* incremental/run_incremental.py (main)
\* ------------------------------------------------------------------------
\* The six pull_cbb_* calls of run_incremental.main
NumPulls == 6

\* Names that can be passed in the datasets argument; "bogus" is not a
\* dataset.
RequestNames == DatasetNames \cup {"bogus"}

DatasetArgs ==
    {[given |-> FALSE, names |-> <<>>]}
       \cup {[given |-> TRUE, names |-> n] : n \in SeqsUpTo(RequestNames, MaxRequested)}

NamesOf(ds) == {ds.names[i] : i \in 1..Len(ds.names)}

\* "if datasets:" is false for None and for an empty list.
Truthy(ds) == ds.given /\ ds.names # <<>>

\* The position of a dataset in DATASET_ORDER.
OrderIndex(d) == CHOOSE i \in 1..Len(DATASET_ORDER) : DATASET_ORDER[i] = d

\* Mutant of LoadDatasets: the datasets are loaded in the order passed.
LoadDatasetsAsPassed(ds) == IF Truthy(ds) THEN ds.names ELSE DATASET_ORDER

\* load_datasets = [d for d in DATASET_ORDER if d in datasets], or
\* DATASET_ORDER
LoadDatasets(ds) ==
    IF Truthy(ds)
       THEN SelectSeq(DATASET_ORDER, LAMBDA d : d \in NamesOf(ds))
       ELSE DATASET_ORDER

\* What can happen inside a loader that returns: the records were fetched
\* and upserted ("merged"), the provider has no record ("empty"), or every
\* request failed and the fetch returned [] ("fetch_failed").
ReturnKinds == {"merged", "empty", "fetch_failed"}

\* The "status" of the dict a loader returns: "no_data" when the list of
\* fetched records is empty, "success" after the upsert.
LoaderStatus(kind) == IF kind = "merged" THEN "success" ELSE "no_data"

\* Mutant of NextAfterError: the exception of a loader ends the loop.
NextAfterErrorAbort(i, n) == n + 1

\* "except Exception" is inside the for loop: the loop goes on with the
\* next dataset.
NextAfterError(i, n) == i + 1

\* errors = [d for d, r in results["datasets"].items()
\*           if r.get("status") == "error"]; "partial_success" if errors
OverallStatus(res) ==
    IF \E d \in DatasetNames : res[d] = "error" THEN "partial_success"
                                                ELSE "success"

InitOrch ==
    /\ entry \in {"run_ingest", "run_incremental"}
    /\ datasets \in IF entry = "run_ingest" THEN DatasetArgs
                                            ELSE {[given |-> FALSE, names |-> <<>>]}
    /\ load_datasets = <<>>
    /\ oPc = IF entry = "run_ingest" THEN "validate" ELSE "pulls"
    /\ oIdx = 1
    /\ called = <<>>
    /\ happened = [d \in DatasetNames |-> "none"]
    /\ results = [d \in DatasetNames |-> "none"]
    /\ overall_status = "none"
    /\ pulls = <<>>
    /\ exitStatus = -1
    /\ DagIdle
    /\ MergeIdle
    /\ PlanIdle
    /\ FetchIdle
    /\ FlattenIdle
    /\ IncrIdle
    /\ RetryIdle

\* run_ingest: the datasets argument names datasets only.
RunIngestValidate ==
    /\ oPc = "validate"
    /\ Truthy(datasets) => NamesOf(datasets) \subseteq DatasetNames
    /\ load_datasets' = LoadDatasets(datasets)
    /\ oPc' = "loop"
    /\ UNCHANGED <<entry, datasets, oIdx, called, happened, results,
                   overall_status, pulls, exitStatus>>
    /\ UNCHANGED nonOrchVars

\* run_ingest: raise ValueError(f"Invalid datasets: ...")
RunIngestInvalid ==
    /\ oPc = "validate"
    /\ Truthy(datasets)
    /\ ~(NamesOf(datasets) \subseteq DatasetNames)
    /\ oPc' = "raised"
    /\ UNCHANGED <<entry, datasets, load_datasets, oIdx, called, happened,
                   results, overall_status, pulls, exitStatus>>
    /\ UNCHANGED nonOrchVars

InIngestLoop == oPc = "loop" /\ oIdx <= Len(load_datasets)

\* One iteration of the for loop whose loader returns its dict.
LoaderReturns(kind) ==
    /\ InIngestLoop
    /\ LET d == load_datasets[oIdx]
       IN /\ called' = Append(called, d)
          /\ happened' = [happened EXCEPT ![d] = kind]
          /\ results' = [results EXCEPT ![d] = LoaderStatus(kind)]
    /\ oIdx' = oIdx + 1
    /\ UNCHANGED <<entry, datasets, load_datasets, oPc, overall_status, pulls,
                   exitStatus>>
    /\ UNCHANGED nonOrchVars

\* One iteration of the for loop whose loader raises an Exception.
LoaderRaises ==
    /\ InIngestLoop
    /\ LET d == load_datasets[oIdx]
       IN /\ called' = Append(called, d)
          /\ happened' = [happened EXCEPT ![d] = "raised"]
          /\ results' = [results EXCEPT ![d] = "error"]
    /\ oIdx' = NextAfterError(oIdx, Len(load_datasets))
    /\ UNCHANGED <<entry, datasets, load_datasets, oPc, overall_status, pulls,
                   exitStatus>>
    /\ UNCHANGED nonOrchVars

\* run_ingest after the loop: the summary, overall_status, return results.
RunIngestReturn ==
    /\ oPc = "loop"
    /\ oIdx > Len(load_datasets)
    /\ overall_status' = OverallStatus(results)
    /\ oPc' = "returned"
    /\ UNCHANGED <<entry, datasets, load_datasets, oIdx, called, happened,
                   results, pulls, exitStatus>>
    /\ UNCHANGED nonOrchVars

\* run_ingest.main: sys.exit(1) if overall_status is not "success".
IngestMainExit ==
    /\ oPc = "returned"
    /\ exitStatus' = IF overall_status # "success" THEN 1 ELSE 0
    /\ oPc' = "exited"
    /\ UNCHANGED <<entry, datasets, load_datasets, oIdx, called, happened,
                   results, overall_status, pulls>>
    /\ UNCHANGED nonOrchVars

\* run_ingest.main: "FATAL ERROR" and sys.exit(1)
IngestMainFatal ==
    /\ oPc = "raised"
    /\ exitStatus' = 1
    /\ oPc' = "exited"
    /\ UNCHANGED <<entry, datasets, load_datasets, oIdx, called, happened,
                   results, overall_status, pulls>>
    /\ UNCHANGED nonOrchVars

\* run_incremental.main: results.append(pull_cbb_...()), the pull returned
\* its dict with the given "success".
PullReturns(success) ==
    /\ oPc = "pulls"
    /\ Len(pulls) < NumPulls
    /\ pulls' = Append(pulls, success)
    /\ UNCHANGED <<entry, datasets, load_datasets, oPc, oIdx, called, happened,
                   results, overall_status, exitStatus>>
    /\ UNCHANGED nonOrchVars

\* run_incremental.main: a pull raises (get_cbb_headers, save_to_local) and
\* the exception ends the process.
PullRaises ==
    /\ oPc = "pulls"
    /\ Len(pulls) < NumPulls
    /\ exitStatus' = 1
    /\ oPc' = "exited"
    /\ UNCHANGED <<entry, datasets, load_datasets, oIdx, called, happened,
                   results, overall_status, pulls>>
    /\ UNCHANGED nonOrchVars

\* run_incremental.main: the summary is printed and main returns.
IncrementalMainReturn ==
    /\ oPc = "pulls"
    /\ Len(pulls) = NumPulls
    /\ exitStatus' = 0
    /\ oPc' = "exited"
    /\ UNCHANGED <<entry, datasets, load_datasets, oIdx, called, happened,
                   results, overall_status, pulls>>
    /\ UNCHANGED nonOrchVars

NextOrch ==
    \/ RunIngestValidate
    \/ RunIngestInvalid
    \/ \E kind \in ReturnKinds : LoaderReturns(kind)
    \/ LoaderRaises
    \/ RunIngestReturn
    \/ IngestMainExit
    \/ IngestMainFatal
    \/ \E success \in BOOLEAN : PullReturns(success)
    \/ PullRaises
    \/ IncrementalMainReturn

SpecOrch == InitOrch /\ [][NextOrch]_vars

\* Position of dataset d in the sequence of loader calls, 0 if not called.
CalledAt(d) ==
    IF \E i \in 1..Len(called) : called[i] = d
       THEN CHOOSE i \in 1..Len(called) : called[i] = d
       ELSE 0

\* Dataset a, if loaded, was loaded before dataset b, if loaded.
LoadedBefore(a, b) ==
    (CalledAt(a) > 0 /\ CalledAt(b) > 0) => CalledAt(a) < CalledAt(b)

\* C16: run_ingest calls the loaders in the order of DATASET_ORDER whatever
\* the order of the datasets argument: teams and venues before games, games
\* before team_game_stats, lines and game_players.
C16_DependencyOrder ==
    /\ \A i, j \in 1..Len(called) :
          i < j => OrderIndex(called[i]) < OrderIndex(called[j])
    /\ \A r \in {"teams", "venues"} : LoadedBefore(r, "games")
    /\ \A c \in {"team_game_stats", "lines", "game_players"} :
          LoadedBefore("games", c)

\* The datasets were passed children first and loaded parents first.
C16_Witness ==
    /\ datasets.names = <<"game_players", "games", "teams">>
    /\ called = <<"teams", "games", "game_players">>

\* The datasets a call of run_ingest is asked to load.
Requested == IF Truthy(datasets) THEN NamesOf(datasets) ELSE DatasetNames

\* C17: run_ingest returns a summary with an entry for every requested
\* dataset even when loaders fail: a loader that raised has status "error"
\* and every later dataset of the order was still attempted.
C17_SummaryForEveryDataset ==
    (entry = "run_ingest" /\ oPc \in {"returned", "exited"}
        /\ overall_status # "none") =>
        /\ \A d \in Requested : results[d] # "none"
        /\ \A d \in DatasetNames : happened[d] = "raised" => results[d] = "error"
        /\ called = load_datasets

\* run_ingest returned after the loader of games raised and the loader of a
\* later dataset ran and succeeded.
C17_Witness ==
    /\ oPc = "returned"
    /\ happened["games"] = "raised"
    /\ results["games"] = "error"
    /\ \E d \in DatasetNames :
          /\ CalledAt(d) > CalledAt("games")
          /\ results[d] = "success"

\* C18: overall_status is "success" only if no requested dataset failed to
\* be extracted and merged in this run.
C18_SuccessMeansNoFailure ==
    overall_status = "success" =>
        \A d \in DatasetNames : happened[d] \notin {"fetch_failed", "raised"}

\* Some result of the run is a failure: a dataset with status "error", or a
\* pull with success = False.
SomeResultFailed ==
    \/ entry = "run_ingest" /\ \E d \in DatasetNames : results[d] = "error"
    \/ entry = "run_incremental" /\ \E i \in 1..Len(pulls) : ~pulls[i]

\* C19: run_ingest.main and run_incremental.main end with a non-zero exit
\* status whenever a dataset or endpoint result is a failure.
C19_ExitStatusReflectsFailure ==
    (oPc = "exited" /\ SomeResultFailed) => exitStatus # 0

\* ------------------------------------------------------------------------
\* daily_full_refresh DAG
\* ------------------------------------------------------------------------
TaskStates == {"none", "success", "failed", "upstream_failed"}

\* load_rows_to_table(truncate=True): the staging table is cleared, then the
\* rows are written; a landing defect may leave fewer rows than extracted.
LoadRowsToTable(n) == {Content(1, k) : k \in 0..n}

\* count_rows(hook, table)
CountRows(table) == table.n

\* swap_stage_to_raw: the staged content replaces the raw content of one
\* table, in a single transaction of that table.
SwapStageToRaw(r, s, a) == [r EXCEPT ![a] = s[a]]

InitDag ==
    /\ extractTask = [a \in Assets |-> "none"]
    /\ validateTask = [a \in Assets |-> "none"]
    /\ finalizeTask = "none"
    /\ finalizeIdx = 1
    /\ extracted = [a \in Assets |-> -1]
    /\ landed = [a \in Assets |-> -1]
    /\ reported = [a \in Assets |-> -1]
    /\ stage \in [Assets -> {Content(0, n) : n \in 0..1}]
    /\ raw \in [Assets -> {Content(0, n) : n \in 1..2}]
    /\ rawBefore = raw
    /\ MergeIdle
    /\ PlanIdle
    /\ FetchIdle
    /\ IncrIdle
    /\ RetryIdle
    /\ OrchIdle
    /\ FlattenIdle

\* Mutant of RawAfterLoad: the rows are loaded into asset.target_table.
RawAfterLoadTarget(r, a, c) == [r EXCEPT ![a] = c]

\* load_rows_to_table is called with table=asset.staging_table: the raw
\* tables are as they were.
RawAfterLoad(r, a, c) == r

\* extract_and_load_stage(asset), successful: extractor(), load_rows_to_table,
\* count_rows, return stage_count.
ExtractAndLoadStage(a) ==
    /\ extractTask[a] = "none"
    /\ \E n \in 0..MaxRows : \E c \in LoadRowsToTable(n) :
         /\ extracted' = [extracted EXCEPT ![a] = n]
         /\ stage' = [stage EXCEPT ![a] = c]
         /\ raw' = RawAfterLoad(raw, a, c)
         /\ landed' = [landed EXCEPT ![a] = CountRows(c)]
         /\ reported' = [reported EXCEPT ![a] = CountRows(c)]
    /\ extractTask' = [extractTask EXCEPT ![a] = "success"]
    /\ UNCHANGED <<validateTask, finalizeTask, finalizeIdx, rawBefore>>
    /\ UNCHANGED nonDagVars

\* extract_and_load_stage(asset) raising in the extractor (nothing staged).
ExtractFail(a) ==
    /\ extractTask[a] = "none"
    /\ extractTask' = [extractTask EXCEPT ![a] = "failed"]
    /\ UNCHANGED <<validateTask, finalizeTask, finalizeIdx, extracted, landed,
                   reported, stage, raw, rawBefore>>
    /\ UNCHANGED nonDagVars

\* The staging table is changed by another session between the two tasks of
\* an asset (the condition validate_stage's re-count exists to detect).
StageDrift(a) ==
    /\ extractTask[a] = "success"
    /\ validateTask[a] = "none"
    /\ stage[a].n = landed[a]
    /\ \E k \in 0..MaxRows :
         /\ k # stage[a].n
         /\ stage' = [stage EXCEPT ![a].n = k]
    /\ UNCHANGED <<extractTask, validateTask, finalizeTask, finalizeIdx,
                   extracted, landed, reported, raw, rawBefore>>
    /\ UNCHANGED nonDagVars

\* The comparison of validate_stage: staging count now against the count the
\* upstream task returned.
StageCountMatches(stage_count, upstream_row_count) ==
    stage_count = upstream_row_count

\* Mutant of ValidateReady: a failed task of any asset stops the tasks of
\* the other assets (fail_stop).
ValidateReadyFailStop(a) ==
    /\ validateTask[a] = "none"
    /\ extractTask[a] = "success"
    /\ \A o \in Assets : extractTask[o] # "failed" /\ validateTask[o] # "failed"

\* "load >> validate" inside the task group of the asset is the only
\* upstream of validate_stage: it is scheduled once its own extract task
\* succeeded.
ValidateReady(a) ==
    /\ validateTask[a] = "none"
    /\ extractTask[a] = "success"

\* validate_stage(asset, upstream_row_count=load); "load >> validate" with the
\* default trigger rule runs it only after a successful extract.
ValidateStage(a) ==
    /\ ValidateReady(a)
    /\ validateTask' = [validateTask EXCEPT ![a] =
          IF StageCountMatches(CountRows(stage[a]), reported[a])
             THEN "success" ELSE "failed"]
    /\ UNCHANGED <<extractTask, finalizeTask, finalizeIdx, extracted, landed,
                   reported, stage, raw, rawBefore>>
    /\ UNCHANGED nonDagVars

\* validate_stage is not run when its extract task failed.
ValidateUpstreamFailed(a) ==
    /\ validateTask[a] = "none"
    /\ extractTask[a] = "failed"
    /\ validateTask' = [validateTask EXCEPT ![a] = "upstream_failed"]
    /\ UNCHANGED <<extractTask, finalizeTask, finalizeIdx, extracted, landed,
                   reported, stage, raw, rawBefore>>
    /\ UNCHANGED nonDagVars

\* Mutant of FinalizeTrigger: TriggerRule.ALL_DONE instead of ALL_SUCCESS.
FinalizeTriggerAllDone == \A a \in Assets : validateTask[a] # "none"

\* TriggerRule.ALL_SUCCESS of finalize_all over validate_tasks.
FinalizeTrigger == \A a \in Assets : validateTask[a] = "success"

FinalizeBlocked ==
    /\ \A a \in Assets : validateTask[a] # "none"
    /\ \E a \in Assets : validateTask[a] # "success"

\* finalize_all is scheduled and enters its loop.
FinalizeStart ==
    /\ finalizeTask = "none"
    /\ FinalizeTrigger
    /\ finalizeTask' = "running"
    /\ UNCHANGED <<extractTask, validateTask, finalizeIdx, extracted, landed,
                   reported, stage, raw, rawBefore>>
    /\ UNCHANGED nonDagVars

\* finalize_all is marked upstream_failed and never runs.
FinalizeSkip ==
    /\ finalizeTask = "none"
    /\ FinalizeBlocked
    /\ finalizeTask' = "upstream_failed"
    /\ UNCHANGED <<extractTask, validateTask, finalizeIdx, extracted, landed,
                   reported, stage, raw, rawBefore>>
    /\ UNCHANGED nonDagVars

\* One iteration of "for asset in assets": swap_stage_to_raw commits.
FinalizeSwap ==
    /\ finalizeTask = "running"
    /\ finalizeIdx <= NumAssets
    /\ raw' = SwapStageToRaw(raw, stage, finalizeIdx)
    /\ finalizeIdx' = finalizeIdx + 1
    /\ UNCHANGED <<extractTask, validateTask, finalizeTask, extracted, landed,
                   reported, stage, rawBefore>>
    /\ UNCHANGED nonDagVars

\* One iteration in which swap_stage_to_raw raises: that table's transaction
\* is rolled back and the exception ends finalize_all.
FinalizeSwapRaises ==
    /\ finalizeTask = "running"
    /\ finalizeIdx <= NumAssets
    /\ finalizeTask' = "failed"
    /\ UNCHANGED <<extractTask, validateTask, finalizeIdx, extracted, landed,
                   reported, stage, raw, rawBefore>>
    /\ UNCHANGED nonDagVars

\* The loop is exhausted and finalize_all returns.
FinalizeDone ==
    /\ finalizeTask = "running"
    /\ finalizeIdx > NumAssets
    /\ finalizeTask' = "success"
    /\ UNCHANGED <<extractTask, validateTask, finalizeIdx, extracted, landed,
                   reported, stage, raw, rawBefore>>
    /\ UNCHANGED nonDagVars

NextDag ==
    \/ \E a \in Assets : ExtractAndLoadStage(a)
    \/ \E a \in Assets : ExtractFail(a)
    \/ \E a \in Assets : StageDrift(a)
    \/ \E a \in Assets : ValidateStage(a)
    \/ \E a \in Assets : ValidateUpstreamFailed(a)
    \/ FinalizeStart
    \/ FinalizeSkip
    \/ FinalizeSwap
    \/ FinalizeSwapRaises
    \/ FinalizeDone

SpecDag == InitDag /\ [][NextDag]_vars

\* ------------------------------------------------------------------------
\* Properties of the daily_full_refresh DAG
\* ------------------------------------------------------------------------
\* The raw table of asset a holds the content staged by this run.
Promoted(a) == raw[a].gen = 1

\* C20: a failed extract_and_load_stage or validate_stage of one asset does
\* not keep the extract_and_load_stage and validate_stage tasks of another
\* asset from running: each can run as soon as its own upstream is done.
C20_FailOpenUpstream ==
    \A b \in Assets :
        /\ extractTask[b] = "none" => ENABLED ExtractAndLoadStage(b)
        /\ (extractTask[b] = "success" /\ validateTask[b] = "none")
              => ENABLED ValidateStage(b)

\* One asset failed in extraction or in validation, both tasks of another
\* asset ran to completion all the same, and finalize_all was blocked.
C20_Witness ==
    /\ \E a, b \in Assets :
          /\ a # b
          /\ (extractTask[a] = "failed" \/ validateTask[a] = "failed")
          /\ extractTask[b] = "success"
          /\ validateTask[b] = "success"
    /\ finalizeTask = "upstream_failed"

\* C1: finalize_all runs only if validate_stage succeeded for every asset of
\* the batch; when the validation of some asset did not succeed, no raw table
\* is swapped and every raw table holds its content from before the run.
C1_FinalizeOnlyAfterAllValidated ==
    /\ finalizeTask \in {"running", "success", "failed"}
          => \A a \in Assets : validateTask[a] = "success"
    /\ (\E b \in Assets : validateTask[b] \in {"failed", "upstream_failed"})
          => \A a \in Assets : raw[a] = rawBefore[a]

\* Asset 1 validated, asset 2 failed its validation, and the run is over.
C1_Witness ==
    /\ validateTask[1] = "success"
    /\ validateTask[2] = "failed"
    /\ finalizeTask = "upstream_failed"
    /\ raw[1] = rawBefore[1]

\* C2: whenever finalize_all has terminated (normally or by an exception of
\* swap_stage_to_raw), either every table of the batch is promoted or none.
C2_AllOrNoneAtTermination ==
    finalizeTask \in {"success", "failed"}
       => \/ \A a \in Assets : Promoted(a)
          \/ \A a \in Assets : ~Promoted(a)

\* C26: extract_and_load_stage and validate_stage leave every raw table
\* unchanged; a raw table changes only inside finalize_all.
C26_OnlyFinalizeWritesRaw ==
    [][raw' # raw => (finalizeTask = "running" /\ finalizeIdx' = finalizeIdx + 1)]_vars

\* An asset was staged and validated with new content, finalize_all has not
\* started, and every raw table is as it was when the run began.
C26_Witness ==
    /\ \E a \in Assets :
          /\ extractTask[a] = "success"
          /\ validateTask[a] = "success"
          /\ stage[a].gen = 1
          /\ stage[a] # raw[a]
    /\ finalizeTask = "none"
    /\ raw = rawBefore

\* C21: while finalize_all runs, a reader of the raw tables never sees some
\* tables of the batch promoted and the others still with their previous
\* content.
C21_NoPartialPromotionVisible ==
    finalizeTask = "running"
       => \/ \A a \in Assets : Promoted(a)
          \/ \A a \in Assets : ~Promoted(a)

\* C3: validate_stage fails for every asset whose extractor returned a number
\* of rows different from the number of rows in staging after the load.
C3_ValidationComparesExtractedCount ==
    \A a \in Assets :
       (extractTask[a] = "success" /\ extracted[a] # landed[a])
          => validateTask[a] # "success"

\* ------------------------------------------------------------------------
\* Flattening of nested records: save_to_local(flatten_field=...),
\* flatten_lines, and the loop of pull_cbb_game_players
\* ------------------------------------------------------------------------
\* The keys of a parent record next to its nested list, and the keys of a
\* nested child; the payload is whatever the provider sends, and nothing
\* keeps a child's key from having the name of a parent's.
ParentFields == {"gameId", "name"}
ChildFields == {"athleteId", "name"}
FieldValues == {1, 2}

\* A dict with the required keys and any of the optional ones.
Dicts(required, optional) ==
    UNION {[required \cup o -> FieldValues] : o \in SUBSET optional}

ChildLists ==
    UNION {[1..n -> Dicts({"athleteId"}, ChildFields \ {"athleteId"})] :
              n \in 0..MaxChildren}

\* A parent record: its keys other than the nested list, and the nested list
\* (empty when the key is absent or the list is empty).
ParentRecords ==
    {[base |-> b, nested |-> c] : b \in Dicts(ParentFields, {}), c \in ChildLists}

RECURSIVE ChildCount(_)
ChildCount(rs) ==
    IF rs = <<>> THEN 0 ELSE Len(Head(rs).nested) + ChildCount(Tail(rs))

\* The payloads flattened here: one or two parent records.
RecordLists ==
    {rs \in {<<p>> : p \in ParentRecords}
            \cup {<<p, q>> : p \in ParentRecords, q \in ParentRecords} :
        ChildCount(rs) <= MaxChildren}

\* {**base, **item}
MergeDicts(base, item) ==
    [k \in DOMAIN base \cup DOMAIN item |->
        IF k \in DOMAIN item THEN item[k] ELSE base[k]]

\* The rows of one parent record: one per nested item; without nested items
\* the parent alone (save_to_local, flatten_lines) or nothing
\* (pull_cbb_game_players).
FlattenRecord(record, i, keepChildless) ==
    LET base == record.base
        nested == record.nested
    IN IF nested # <<>>
          THEN [j \in 1..Len(nested) |->
                   [row |-> MergeDicts(base, nested[j]), parent |-> i, item |-> j]]
          ELSE IF keepChildless
                  THEN <<[row |-> base, parent |-> i, item |-> 0]>>
                  ELSE <<>>

\* for record in records: ... flat_records.append(...)
RECURSIVE FlattenFrom(_, _, _)
FlattenFrom(rs, i, keepChildless) ==
    IF i > Len(rs) THEN <<>>
    ELSE FlattenRecord(rs[i], i, keepChildless)
             \o FlattenFrom(rs, i + 1, keepChildless)

InitFlatten ==
    /\ flBy = "none"
    /\ flRecords \in RecordLists
    /\ flat_records = <<>>
    /\ DagIdle
    /\ MergeIdle
    /\ PlanIdle
    /\ FetchIdle
    /\ IncrIdle
    /\ RetryIdle
    /\ OrchIdle

Flattened(by, keepChildless) ==
    /\ flBy' = by
    /\ flat_records' = FlattenFrom(flRecords, 1, keepChildless)
    /\ UNCHANGED flRecords
    /\ UNCHANGED nonFlattenVars

\* save_to_local(records, output_dir, "lines", flatten_field="lines")
SaveToLocalFlatten ==
    /\ flBy = "none"
    /\ flRecords # <<>>
    /\ Flattened("save_to_local", TRUE)

\* flatten_lines(games)
FlattenLines ==
    /\ flBy = "none"
    /\ Flattened("flatten_lines", TRUE)

\* The flattening loop of pull_cbb_game_players.
GamePlayersFlatten ==
    /\ flBy = "none"
    /\ Flattened("pull_cbb_game_players", FALSE)

NextFlatten ==
    \/ SaveToLocalFlatten
    \/ FlattenLines
    \/ GamePlayersFlatten

SpecFlatten == InitFlatten /\ [][NextFlatten]_vars

\* C29: flattening yields one row per leaf entity: a parent record with
\* n >= 1 nested children gives exactly n rows, one per child, and each of
\* them carries the parent's value for every parent field other than the
\* nested list.
C29_OneRowPerLeaf ==
    flBy # "none" =>
        \A i \in 1..Len(flRecords) :
            LET base == flRecords[i].base
                nested == flRecords[i].nested
                rows == {r \in 1..Len(flat_records) : flat_records[r].parent = i}
            IN Len(nested) >= 1 =>
                  /\ Cardinality(rows) = Len(nested)
                  /\ \A j \in 1..Len(nested) :
                        \E r \in rows : flat_records[r].item = j
                  /\ \A r \in rows : \A k \in DOMAIN base :
                        flat_records[r].row[k] = base[k]

====
